---- MODULE Spec2Model ----
(***************************************************************************)
(* Model of the placeholder expansion engine of PromptLab                  *)
(* (src/utils/placeholders.ts): the registry `placeholders`, the custom    *)
(* placeholder loader, bulkApply and the persistent variable store.        *)
(*                                                                         *)
(* Text is modelled as a sequence of tokens.  A token is either a piece of *)
(* plain text ("A"), a complete directive occurrence ("{{get x}}") or the  *)
(* replacement pattern "$&" of String.prototype.replace.  A regular        *)
(* expression is modelled by the set of tokens it matches (Lang).          *)
(***************************************************************************)
EXTENDS Integers, Sequences, FiniteSets, TLC

\* ------------------------------------------------------------------ bounds
MaxLen == 3
MaxLog == 5
MaxUUIDs == 3
MaxCount == 3
MaxPrompt == 2
MaxDepth == 4

\* ------------------------------------------------------------------ text
\* The pattern keys of the modelled part of the registry, as in the source.
KeyReset == "{{reset [a-zA-Z0-9_]+}}"
KeyGet == "{{get [a-zA-Z0-9_]+}}"
KeyDelete == "{{delete [a-zA-Z0-9_]+}}"
KeyInput == "{{input}}"
KeyClipboardText == "{{clipboardText}}"
AliasClipboard == "{{clipboard}}"
KeyCurrentAppName == "{{currentAppName}}"
AliasCurrentApp == "{{currentApp}}"
KeyCurrentDirectory == "{{currentDirectory}}"
KeyCurrentURL == "{{currentURL}}"
AliasCurrentTabURL == "{{currentTabURL}}"
KeyUUID == "{{uuid}}"
AliasUUID == "{{UUID}}"
KeySelectedFiles == "{{selectedFiles}}"
AliasSelectedFile == "{{selectedFile}}"
AliasFiles == "{{files}}"
KeyImages == "{{images:(([^{]|{(?!{)|{{[\\s\\S]*?}})*?)(:(([^{]|{(?!{)|{{[\\s\\S]*?}})*?))?}}"
KeyPDF == "{{(pdf|PDF):(([^{]|{(?!{)|{{[\\s\\S]*?}})*?)(:(([^{]|{(?!{)|{{[\\s\\S]*?}})*?))?}}"
KeyURL == "{{(url|URL)( raw=(true|false))?:.*?}}"
AliasHTTP == "{{https?:([\\s\\S]*?)}}"
KeyIncrement == "{{increment:[\\s\\S]*?}}"
KeyDecrement == "{{decrement:[\\s\\S]*?}}"
KeyFile == "{{file:(.|^[\\s\\n\\r])*?}}"
KeyShell == "{{shell( .*)?:(.|[ \\n\\r\\s])*?}}"
KeySet == "{{set [a-zA-Z0-9_]+:[\\s\\S]*?}}"
KeyGreet == "{{greet}}"
KeyInvalid == "{{(}}"

\* The tokens each regular expression matches (new RegExp(key)).
Lang(pattern) ==
  CASE pattern = KeyGet -> {"{{get x}}"}
    [] pattern = KeyReset -> {"{{reset x}}"}
    [] pattern = KeyDelete -> {"{{delete x}}"}
    [] pattern = KeyInput -> {"{{input}}"}
    [] pattern = KeyClipboardText -> {"{{clipboardText}}"}
    [] pattern = AliasClipboard -> {"{{clipboard}}"}
    [] pattern = KeyCurrentAppName -> {"{{currentAppName}}"}
    [] pattern = AliasCurrentApp -> {"{{currentApp}}"}
    [] pattern = KeyCurrentDirectory -> {"{{currentDirectory}}"}
    [] pattern = KeyCurrentURL -> {"{{currentURL}}"}
    [] pattern = AliasCurrentTabURL -> {"{{currentTabURL}}"}
    [] pattern = KeyUUID -> {"{{uuid}}"}
    [] pattern = AliasUUID -> {"{{UUID}}"}
    [] pattern = KeySelectedFiles -> {"{{selectedFiles}}"}
    [] pattern = AliasSelectedFile -> {"{{selectedFile}}"}
    [] pattern = AliasFiles -> {"{{files}}"}
    [] pattern = KeyImages -> {"{{images:YES:NO}}", "{{images:YES}}"}
    [] pattern = KeyPDF -> {"{{pdf:YES:NO}}", "{{PDF:YES:NO}}"}
    [] pattern = KeyIncrement -> {"{{increment:c}}"}
    [] pattern = KeyDecrement -> {"{{decrement:c}}"}
    [] pattern = KeyURL -> {"{{url:http://a}}"}
    [] pattern = AliasHTTP -> {"{{http://b}}"}
    [] pattern = KeyFile -> {"{{file:/p}}", "{{file:/q}}"}
    [] pattern = KeyShell -> {"{{shell:false}}", "{{shell:cat /p}}"}
    [] pattern = KeySet -> {"{{set x:v}}", "{{set x:$&}}", "{{set get_count:v}}"}
    [] pattern = KeyGreet -> {"{{greet}}"}
    [] OTHER -> {}

\* str.match(new RegExp(pattern, "g")) != undefined
HasMatch(str, pattern) == \E n \in 1..Len(str) : str[n] \in Lang(pattern)

\* Index of the first match of pattern in str (0 when there is none).
FirstMatch(str, pattern) ==
  IF HasMatch(str, pattern)
  THEN CHOOSE n \in 1..Len(str) :
         /\ str[n] \in Lang(pattern)
         /\ \A m \in 1..(n - 1) : str[m] \notin Lang(pattern)
  ELSE 0

\* The replacement string of String.prototype.replace: "$&" inserts the
\* matched substring.
RECURSIVE Substitute(_, _)
Substitute(replacement, matched) ==
  IF replacement = <<>> THEN <<>>
  ELSE (IF Head(replacement) = "$&" THEN <<matched>> ELSE <<Head(replacement)>>)
       \o Substitute(Tail(replacement), matched)

\* str.replace(new RegExp(pattern + "(?=(}}|[\\s\\S]|$))"), replacement)
ReplaceFirst(str, pattern, replacement) ==
  LET n == FirstMatch(str, pattern)
  IN IF n = 0 THEN str
     ELSE SubSeq(str, 1, n - 1) \o Substitute(replacement, str[n])
          \o SubSeq(str, n + 1, Len(str))

\* str.replace(new RegExp(pattern + "(?=(}}|[\\s\\S]|$))", "g"), replacement)
RECURSIVE ReplaceAll(_, _, _)
ReplaceAll(str, pattern, replacement) ==
  IF str = <<>> THEN <<>>
  ELSE (IF Head(str) \in Lang(pattern)
        THEN Substitute(replacement, Head(str))
        ELSE <<Head(str)>>)
       \o ReplaceAll(Tail(str), pattern, replacement)

\* The characters of a file path token, for the string methods applied to
\* paths (toLowerCase, endsWith).
Chars(token) ==
  CASE token = "a.png" -> <<"a", ".", "p", "n", "g">>
    [] token = "B.PNG" -> <<"B", ".", "P", "N", "G">>
    [] token = "b.txt" -> <<"b", ".", "t", "x", "t">>
    [] token = "mypng" -> <<"m", "y", "p", "n", "g">>
    [] token = "a.pdf" -> <<"a", ".", "p", "d", "f">>
    [] token = "B.PDF" -> <<"B", ".", "P", "D", "F">>
    [] token = "mypdf" -> <<"m", "y", "p", "d", "f">>
    [] OTHER -> <<token>>

LowerChar(c) ==
  CASE c = "B" -> "b" [] c = "P" -> "p" [] c = "N" -> "n" [] c = "G" -> "g"
    [] c = "D" -> "d" [] c = "F" -> "f" [] OTHER -> c

toLowerCase(chars) == [n \in 1..Len(chars) |-> LowerChar(chars[n])]

endsWith(chars, suffix) ==
  /\ Len(suffix) <= Len(chars)
  /\ SubSeq(chars, Len(chars) - Len(suffix) + 1, Len(chars)) = suffix

\* csv.split(","): the paths between the commas.
split(csv) == SelectSeq(csv, LAMBDA token : token # ",")

\* The image extensions of data/file-extensions, without the dot.
imageFileExtensions == {<<"p", "n", "g">>, <<"j", "p", "g">>}

\* path.extname(path).slice(1): the characters after the last dot ("" when
\* there is no dot, or only a leading one).
extname(chars) ==
  IF \E n \in 2..Len(chars) : chars[n] = "."
  THEN SubSeq(chars, 1 + (CHOOSE n \in 2..Len(chars) :
                            /\ chars[n] = "."
                            /\ \A m \in (n + 1)..Len(chars) : chars[m] # "."),
              Len(chars))
  ELSE <<>>

isImageFile(filepath) == toLowerCase(extname(Chars(filepath))) \in imageFileExtensions

\* ------------------------------------------------------------------ context
\* An expansion context { [key: string]: string } is a function from field
\* names to text.  A seed context is written as the ordered list of its
\* <<field, value>> pairs (the order of `for (const contextKey in context)`).
Merge(a, b) ==
  [f \in (DOMAIN a) \cup (DOMAIN b) |-> IF f \in DOMAIN b THEN b[f] ELSE a[f]]

EmptyContext == [f \in {} |-> <<>>]

RECURSIVE ContextOf(_)
ContextOf(pairs) ==
  IF pairs = <<>> THEN EmptyContext
  ELSE Merge(ContextOf(SubSeq(pairs, 1, Len(pairs) - 1)),
             [f \in {pairs[Len(pairs)][1]} |-> pairs[Len(pairs)][2]])

\* ------------------------------------------------------------------ store
\* A persistent variable is a record [name, value, initialValue]; the store
\* is the list kept under StorageKeys.PERSISTENT_VARIABLES.
IndexOfName(store, name) ==
  IF \E n \in 1..Len(store) : store[n].name = name
  THEN CHOOSE n \in 1..Len(store) :
         /\ store[n].name = name
         /\ \A m \in 1..(n - 1) : store[m].name # name
  ELSE 0

RemoveAt(seq, n) == SubSeq(seq, 1, n - 1) \o SubSeq(seq, n + 1, Len(seq))

getPersistentVariable(store, name) ==
  LET n == IndexOfName(store, name)
  IN IF n # 0 THEN store[n].value ELSE <<>>

\* setPersistentVariable that changes the value where the record stands.
setPersistentVariableInPlace(store, name, value) ==
  LET n == IndexOfName(store, name)
  IN IF n # 0
     THEN [store EXCEPT ![n].value = value]
     ELSE Append(store, [name |-> name, value |-> value, initialValue |-> value])

\* setPersistentVariable that pushes a new record without looking for one.
setPersistentVariablePush(store, name, value) ==
  Append(store, [name |-> name, value |-> value, initialValue |-> value])

\* setPersistentVariable that also overwrites initialValue.
setPersistentVariableFresh(store, name, value) ==
  LET n == IndexOfName(store, name)
  IN Append(IF n # 0 THEN RemoveAt(store, n) ELSE store,
            [name |-> name, value |-> value, initialValue |-> value])

setPersistentVariable(store, name, value) ==
  LET n == IndexOfName(store, name)
  IN IF n # 0
     THEN Append(RemoveAt(store, n), [store[n] EXCEPT !.value = value])
     ELSE Append(store, [name |-> name, value |-> value, initialValue |-> value])

\* resetPersistentVariable without `variable.value = variable.initialValue`.
resetPersistentVariableKeepsValue(store, name) ==
  LET n == IndexOfName(store, name)
  IN IF n # 0
     THEN [store |-> Append(RemoveAt(store, n), store[n]), returned |-> store[n].value]
     ELSE [store |-> store, returned |-> <<>>]

\* The store after resetPersistentVariable(name) and the value it returns.
resetPersistentVariable(store, name) ==
  LET n == IndexOfName(store, name)
  IN IF n # 0
     THEN [store |-> Append(RemoveAt(store, n), [store[n] EXCEPT !.value = store[n].initialValue]),
           returned |-> store[n].initialValue]
     ELSE [store |-> store, returned |-> <<>>]

deletePersistentVariable(store, name) ==
  LET n == IndexOfName(store, name)
  IN IF n # 0 THEN RemoveAt(store, n) ELSE store

\* The usage counter of bulkApply: parseInt of the stored text, plus one,
\* written back with toString.
CountText(n) == <<ToString(n)>>

parseInt(text) ==
  IF \E n \in 0..(MaxCount + 1) : text = CountText(n)
  THEN CHOOSE n \in 0..(MaxCount + 1) : text = CountText(n)
  ELSE 0

CountName(name) == name \o "_count"

\* parseInt(text) is NaN: the text does not start with a numeral.
isNaN(text) == ~\E n \in 0..(MaxCount + 1) : text = CountText(n)

\* Lines 2865-2867 and 2906-2908; (NaN + 1).toString() is "NaN".
incrementCount(store, name) ==
  LET currentCountString == getPersistentVariable(store, CountName(name))
      currentCount == IF Len(currentCountString) # 0 THEN parseInt(currentCountString) ELSE 0
  IN setPersistentVariable(store, CountName(name),
                           IF Len(currentCountString) # 0 /\ isNaN(currentCountString)
                           THEN <<"NaN">>
                           ELSE CountText(currentCount + 1))

\* The value stored under StorageKeys.PERSISTENT_VARIABLES when it is not a
\* list (an object, for instance), as getStorage hands it to its caller.
NotAList == <<[name |-> "", value |-> <<>>, initialValue |-> <<>>, isArray |-> FALSE]>>

\* Array.isArray(vars)
isArray(vars) == vars # NotAList

\* LocalStorage items: a function from the identifiers that are set to their
\* text; getItem of an identifier that is not set is undefined (no text).
NoItems == [identifier \in {} |-> <<>>]
getItem(items, identifier) == IF identifier \in DOMAIN items THEN items[identifier] ELSE <<>>
setItem(items, identifier, text) == Merge(items, [i \in {identifier} |-> text])

\* parseInt((await LocalStorage.getItem(identifier)) || "0") + 1
nextValue(items, identifier) ==
  LET stored == getItem(items, identifier)
  IN parseInt(IF stored = <<>> THEN CountText(0) ELSE stored) + 1

\* ------------------------------------------------------------------ state
\* The evaluators of the counters read LocalStorage themselves.
VARIABLE
  localStorage          \* the LocalStorage items of the counters ("id-" + name)

Callers == {"p", "q"}
\* A caller's call: its position, its arguments, its locals (vars, value),
\* what it returned, and (history) the counter's text when it was made.
Idle ==
  [pc |-> "idle", op |-> "none", name |-> "", value |-> <<>>, vars |-> <<>>,
   returned |-> <<>>, before |-> <<>>]

\* ------------------------------------------------------------ collaborators
\* What an external collaborator can answer: a text, or it raises.
Returns(text) == [ok |-> TRUE, text |-> text]
Raises == [ok |-> FALSE, text |-> <<>>]

ClipboardReadText == {Returns(<<"c1">>), Returns(<<"c2">>), Returns(<<"{{get x}}">>), Raises}
GetSelectedText == {Returns(<<"selected">>), Raises}
GetFrontmostApplication == {Returns(<<"Safari">>), Raises}
GetCurrentURL == {Returns(<<"http://a">>), Raises}
RunAppleScript == {Returns(<<"/dir">>), Raises}
\* The text of a file after filterString; a file can hold directive text.
ReadFileSync(path) ==
  {Returns(<<"f1">>), Returns(<<IF path = "/p" THEN "{{file:/q}}" ELSE "{{file:/p}}">>), Raises}
\* execSync raises on a non-zero exit status.
ExecSync(script) ==
  IF script = "false" THEN {Raises} ELSE {Returns(<<"out">>), Raises}
\* The text of the page at a URL after filterString.
GetTextOfWebpage(URL) == {Returns(<<"text of " \o URL>>), Raises}
UUIDs == {"uuid-" \o ToString(n) : n \in 1..MaxUUIDs}

\* --------------------------------------------------------------- registry
Range(seq) == {seq[n] : n \in 1..Len(seq)}

\* The arguments the evaluators' own regular expressions capture.
VariableName(token) == IF token = "{{set get_count:v}}" THEN "get_count" ELSE "x"
SetValue(token) == IF token = "{{set x:$&}}" THEN <<"$&">> ELSE <<"v">>
ShellScript(token) == IF token = "{{shell:false}}" THEN "false" ELSE "cat /p"
FilePath(token) == IF token = "{{file:/p}}" THEN "/p" ELSE "/q"

Builtin(key, name, aliases, hasResultKeys, result_keys, dependencies, constant) ==
  [key |-> key, name |-> name, aliases |-> aliases, hasResultKeys |-> hasResultKeys,
   result_keys |-> result_keys, dependencies |-> dependencies, constant |-> constant,
   apply |-> name, value |-> <<>>]

\* The modelled entries of `placeholders`, in the order of the source.
placeholders ==
  << Builtin(KeyReset, "reset", <<>>, FALSE, <<>>, <<>>, FALSE),
     Builtin(KeyGet, "get", <<>>, FALSE, <<>>, <<>>, FALSE),
     Builtin(KeyDelete, "delete", <<>>, FALSE, <<>>, <<>>, FALSE),
     Builtin(KeyInput, "input", <<>>, TRUE, <<"input">>, <<>>, TRUE),
     Builtin(KeyClipboardText, "clipboardText", <<AliasClipboard>>, TRUE,
             <<"clipboardText">>, <<>>, TRUE),
     Builtin(KeySelectedFiles, "selectedFiles", <<AliasSelectedFile, AliasFiles>>, TRUE,
             <<"selectedFiles">>, <<>>, TRUE),
     Builtin(KeyCurrentAppName, "currentAppName", <<AliasCurrentApp>>, TRUE,
             <<"currentAppName">>, <<>>, TRUE),
     Builtin(KeyCurrentDirectory, "currentDirectory", <<>>, TRUE,
             <<"currentDirectory">>, <<>>, TRUE),
     Builtin(KeyCurrentURL, "currentURL", <<AliasCurrentTabURL>>, TRUE,
             <<"currentURL", "currentAppName">>, <<"currentAppName">>, TRUE),
     Builtin(KeyUUID, "uuid", <<AliasUUID>>, FALSE, <<>>, <<>>, FALSE),
     Builtin(KeyImages, "contentForImages", <<>>, TRUE, <<"contentForImages">>, <<>>, TRUE),
     Builtin(KeyPDF, "contentForPDFs", <<>>, TRUE, <<"contentForPDFs">>, <<>>, TRUE),
     Builtin(KeyURL, "url", <<AliasHTTP>>, FALSE, <<>>, <<>>, FALSE),
     Builtin(KeyFile, "file", <<>>, FALSE, <<>>, <<>>, FALSE),
     Builtin(KeyIncrement, "increment", <<>>, FALSE, <<>>, <<>>, FALSE),
     Builtin(KeyDecrement, "decrement", <<>>, FALSE, <<>>, <<>>, FALSE),
     Builtin(KeyShell, "shell", <<>>, FALSE, <<>>, <<>>, FALSE),
     Builtin(KeySet, "setPersistentVariable", <<>>, FALSE, <<>>, <<>>, FALSE) >>

\* What one call of an evaluator can do: it raises, or it returns the fields
\* res (with res.result) and leaves the durable state (store, ledger).
Outcome(res, store, ledger) == [threw |-> FALSE, res |-> res, store |-> store, ledger |-> ledger]
Thrown(store, ledger) == [threw |-> TRUE, res |-> [result |-> <<>>], store |-> store, ledger |-> ledger]

applyReset(str, ctx, store, ledger) ==
  LET n == FirstMatch(str, KeyReset)
  IN IF n # 0
     THEN LET key == VariableName(str[n])
              reset == resetPersistentVariable(store, key)
          IN {Outcome([result |-> <<>>],
                      setPersistentVariable(reset.store, key, reset.returned), ledger)}
     ELSE {Outcome([result |-> <<>>], store, ledger)}

applyDelete(str, ctx, store, ledger) ==
  LET n == FirstMatch(str, KeyDelete)
  IN IF n # 0
     THEN {Outcome([result |-> <<>>], deletePersistentVariable(store, VariableName(str[n])), ledger)}
     ELSE {Outcome([result |-> <<>>], store, ledger)}

applyGet(str, ctx, store, ledger) ==
  LET n == FirstMatch(str, KeyGet)
  IN IF n # 0
     THEN {Outcome([result |-> getPersistentVariable(store, VariableName(str[n]))], store, ledger)}
     ELSE {Outcome([result |-> <<>>], store, ledger)}

applyInput(str, ctx, store, ledger) ==
  {Outcome(IF c.ok THEN [result |-> c.text, input |-> c.text]
                   ELSE [result |-> <<>>, input |-> <<>>], store, ledger)
     : c \in GetSelectedText}

applyClipboardText(str, ctx, store, ledger) ==
  {Outcome(IF c.ok THEN [result |-> c.text, clipboardText |-> c.text]
                   ELSE [result |-> <<>>, clipboardText |-> <<>>], store, ledger)
     : c \in ClipboardReadText}

applyCurrentAppName(str, ctx, store, ledger) ==
  {Outcome(IF c.ok THEN [result |-> c.text, currentAppName |-> c.text]
                   ELSE [result |-> <<>>, currentAppName |-> <<>>], store, ledger)
     : c \in GetFrontmostApplication}

applyCurrentDirectory(str, ctx, store, ledger) ==
  {IF c.ok THEN Outcome([result |-> c.text, currentDirectory |-> c.text], store, ledger)
           ELSE Thrown(store, ledger)
     : c \in RunAppleScript}

applyCurrentURL(str, ctx, store, ledger) ==
  LET apps == IF "currentAppName" \in DOMAIN ctx /\ ctx["currentAppName"] # <<>>
              THEN {Returns(ctx["currentAppName"])}
              ELSE GetFrontmostApplication
  IN {Outcome(IF a.ok /\ u.ok
              THEN [result |-> u.text, currentURL |-> u.text, currentAppName |-> a.text]
              ELSE [result |-> <<>>, currentURL |-> <<>>, currentAppName |-> <<>>],
              store, ledger)
        : a \in apps, u \in GetCurrentURL}

\* applyUUID without the `while (usedUUIDs.includes(newUUID))` loop.
applyUUIDUnchecked(str, ctx, store, ledger) ==
  {Outcome([result |-> <<u>>, uuid |-> <<u>>], store,
           [isArray |-> TRUE, list |-> Append(ledger.list, u)])
     : u \in UUIDs}

applyUUID(str, ctx, store, ledger) ==
  IF ledger.isArray
  THEN {Outcome([result |-> <<u>>, uuid |-> <<u>>], store,
                [isArray |-> TRUE, list |-> Append(ledger.list, u)])
          : u \in UUIDs \ Range(ledger.list)}
  ELSE {Outcome([result |-> <<u>>, uuid |-> <<u>>], store,
                [isArray |-> TRUE, list |-> <<u>>])
          : u \in UUIDs}

applySelectedFiles(str, ctx, store, ledger) ==
  IF "selectedFiles" \notin DOMAIN ctx
  THEN {Outcome([result |-> <<>>, selectedFiles |-> <<>>], store, ledger)}
  ELSE {Outcome([result |-> ctx["selectedFiles"], selectedFiles |-> ctx["selectedFiles"]],
                store, ledger)}

\* The two bodies the evaluator's regular expression captures (groups 1, 4).
onSuccess(token) == <<"YES">>
onFailure(token) == IF token = "{{images:YES:NO}}" THEN <<"NO">> ELSE <<>>

applyImages(str, ctx, store, ledger) ==
  IF "selectedFiles" \notin DOMAIN ctx \/ ctx["selectedFiles"] = <<>>
  THEN {Outcome([result |-> <<>>, contentForImages |-> <<>>], store, ledger)}
  ELSE LET n == FirstMatch(str, KeyImages)
           success == IF n = 0 THEN <<>> ELSE onSuccess(str[n])
           failure == IF n = 0 THEN <<>> ELSE onFailure(str[n])
           files == split(ctx["selectedFiles"])
           contentForImages ==
             \E m \in 1..Len(files) : \E ext \in imageFileExtensions :
                endsWith(toLowerCase(Chars(files[m])), ext)
       IN {Outcome(IF ~contentForImages
                   THEN [result |-> failure, contentForImages |-> failure]
                   ELSE [result |-> success, contentForImages |-> success], store, ledger)}

\* files.some((file) => file.toLowerCase().endsWith("pdf"))
containsPDF(csv) ==
  \E m \in 1..Len(split(csv)) : endsWith(toLowerCase(Chars(split(csv)[m])), <<"p", "d", "f">>)

\* The evaluator's own regular expression starts with "{{pdf:" only.
FirstMatchLowerPDF(str) ==
  IF \E n \in 1..Len(str) : str[n] = "{{pdf:YES:NO}}"
  THEN CHOOSE n \in 1..Len(str) :
         /\ str[n] = "{{pdf:YES:NO}}"
         /\ \A m \in 1..(n - 1) : str[m] # "{{pdf:YES:NO}}"
  ELSE 0

applyPDFs(str, ctx, store, ledger) ==
  IF "selectedFiles" \notin DOMAIN ctx \/ ctx["selectedFiles"] = <<>>
  THEN {Outcome(Merge([result |-> <<>>], [f \in {"image:pdf"} |-> <<>>]), store, ledger)}
  ELSE LET n == FirstMatchLowerPDF(str)
           success == IF n = 0 THEN <<>> ELSE <<"YES">>
           failure == IF n = 0 THEN <<>> ELSE <<"NO">>
           body == IF ~containsPDF(ctx["selectedFiles"]) THEN failure ELSE success
       IN {Outcome(Merge([result |-> body], [f \in {"image:pdf"} |-> body]), store, ledger)}

\* The counter name the evaluator's own regular expression
\* /(?<=(increment:))[\s\S]*?(?=}})/ finds in the text: the text between the
\* first "increment:" and the next "}}", inside a directive or not.
CounterNames(word) ==
  IF word = "increment"
  THEN [token \in {"{{increment:c}}", "increment:z}}"} |->
          IF token = "{{increment:c}}" THEN "c" ELSE "z"]
  ELSE [token \in {"{{decrement:c}}"} |-> "c"]

CounterName(str, word) ==
  IF \E n \in 1..Len(str) : str[n] \in DOMAIN CounterNames(word)
  THEN CounterNames(word)[str[CHOOSE n \in 1..Len(str) :
                                 /\ str[n] \in DOMAIN CounterNames(word)
                                 /\ \A m \in 1..(n - 1) : str[m] \notin DOMAIN CounterNames(word)]]
  ELSE "undefined"

Identifier(name) == "id-" \o name

OutcomeWithItems(res, store, ledger, items) ==
  [threw |-> FALSE, res |-> res, store |-> store, ledger |-> ledger, items |-> items]

applyIncrement(str, ctx, store, ledger, items) ==
  LET identifier == Identifier(CounterName(str, "increment"))
      value == nextValue(items, identifier)
  IN {OutcomeWithItems([result |-> CountText(value)], store, ledger,
                       setItem(items, identifier, CountText(value)))}

applyDecrement(str, ctx, store, ledger, items) ==
  LET identifier == Identifier(CounterName(str, "decrement"))
      value == nextValue(items, identifier)
  IN {OutcomeWithItems([result |-> CountText(value)], store, ledger,
                       setItem(items, identifier, CountText(value)))}

\* The URL the evaluator's regular expressions capture: group 4 of the first
\* "url:...}}" of the text, or else group 1 of the first "{{http...}}".
URLOf(str) ==
  IF HasMatch(str, KeyURL) THEN "http://a"
  ELSE IF HasMatch(str, AliasHTTP) THEN "http://b"
  ELSE ""

applyURL(str, ctx, store, ledger) ==
  IF URLOf(str) = ""
  THEN {Outcome([result |-> <<>>], store, ledger)}
  ELSE {Outcome([result |-> c.text], store, ledger) : c \in GetTextOfWebpage(URLOf(str))}

applyFile(str, ctx, store, ledger) ==
  LET n == FirstMatch(str, KeyFile)
  IN IF n = 0
     THEN {Outcome([result |-> <<>>, file |-> <<>>], store, ledger)}
     ELSE {Outcome(IF c.ok THEN [result |-> c.text, file |-> c.text]
                           ELSE [result |-> <<>>, file |-> <<>>], store, ledger)
             : c \in ReadFileSync(FilePath(str[n]))}

\* applyShell without its try block.
applyShellUncaught(str, ctx, store, ledger) ==
  LET n == FirstMatch(str, KeyShell)
  IN IF n = 0
     THEN {Thrown(store, ledger)}
     ELSE {IF c.ok THEN Outcome([result |-> c.text, shell |-> c.text], store, ledger)
                   ELSE Thrown(store, ledger)
             : c \in ExecSync(ShellScript(str[n]))}

applyShell(str, ctx, store, ledger) ==
  LET n == FirstMatch(str, KeyShell)
  IN IF n = 0
     THEN {Outcome([result |-> <<>>, shell |-> <<>>], store, ledger)}
     ELSE {Outcome(IF c.ok THEN [result |-> c.text, shell |-> c.text]
                           ELSE [result |-> <<>>, shell |-> <<>>], store, ledger)
             : c \in ExecSync(ShellScript(str[n]))}

applySet(str, ctx, store, ledger) ==
  LET n == FirstMatch(str, KeySet)
  IN IF n # 0
     THEN {Outcome([result |-> <<>>],
                   setPersistentVariable(store, VariableName(str[n]), SetValue(str[n])), ledger)}
     ELSE {Outcome([result |-> <<>>], store, ledger)}

\* The evaluator of a custom placeholder: $0 in its value is the match.
applyCustom(p, str, ctx, store, ledger) ==
  LET n == FirstMatch(str, p.key)
      value == IF n = 0 THEN p.value
               ELSE [m \in 1..Len(p.value) |-> IF p.value[m] = "$0" THEN str[n] ELSE p.value[m]]
  IN {Outcome(Merge([result |-> value], [f \in {p.name} |-> value]), store, ledger)}

\* placeholder.apply(subbedStr, result)
apply(p, str, ctx, store, ledger) ==
  CASE p.apply = "get" -> applyGet(str, ctx, store, ledger)
    [] p.apply = "reset" -> applyReset(str, ctx, store, ledger)
    [] p.apply = "delete" -> applyDelete(str, ctx, store, ledger)
    [] p.apply = "input" -> applyInput(str, ctx, store, ledger)
    [] p.apply = "clipboardText" -> applyClipboardText(str, ctx, store, ledger)
    [] p.apply = "currentAppName" -> applyCurrentAppName(str, ctx, store, ledger)
    [] p.apply = "currentDirectory" -> applyCurrentDirectory(str, ctx, store, ledger)
    [] p.apply = "currentURL" -> applyCurrentURL(str, ctx, store, ledger)
    [] p.apply = "uuid" -> applyUUID(str, ctx, store, ledger)
    [] p.apply = "selectedFiles" -> applySelectedFiles(str, ctx, store, ledger)
    [] p.apply = "contentForImages" -> applyImages(str, ctx, store, ledger)
    [] p.apply = "contentForPDFs" -> applyPDFs(str, ctx, store, ledger)
    [] p.apply = "increment" -> applyIncrement(str, ctx, store, ledger, localStorage)
    [] p.apply = "decrement" -> applyDecrement(str, ctx, store, ledger, localStorage)
    [] p.apply = "url" -> applyURL(str, ctx, store, ledger)
    [] p.apply = "file" -> applyFile(str, ctx, store, ledger)
    [] p.apply = "shell" -> applyShell(str, ctx, store, ledger)
    [] p.apply = "setPersistentVariable" -> applySet(str, ctx, store, ledger)
    [] p.apply = "custom" -> applyCustom(p, str, ctx, store, ledger)

\* ----------------------------------------------------------------- loader
\* A custom placeholders file is the ordered list of its JSON entries
\* [key, name, value]; new RegExp(key) raises for a malformed key.
ValidRegex(key) == key # KeyInvalid

IndexOfKey(list, key) ==
  IF \E n \in 1..Len(list) : list[n].key = key
  THEN CHOOSE n \in 1..Len(list) : list[n].key = key
  ELSE 0

\* The object spread { ...a, ...b } on ordered key/value lists: a key of a
\* keeps its position and takes b's value; the new keys of b follow.
Spread(a, b) ==
  [n \in 1..Len(a) |-> IF IndexOfKey(b, a[n].key) # 0 THEN b[IndexOfKey(b, a[n].key)] ELSE a[n]]
  \o SelectSeq(b, LAMBDA e : IndexOfKey(a, e.key) = 0)

CustomEntry(e) ==
  [key |-> e.key, name |-> e.name, aliases |-> <<>>, hasResultKeys |-> TRUE,
   result_keys |-> <<e.name>>, dependencies |-> <<>>, constant |-> TRUE,
   apply |-> "custom", value |-> e.value]

\* newPlaceholders with one try block around the whole file.
newPlaceholdersAllOrNothing(file) ==
  IF \E n \in 1..Len(file) : ~ValidRegex(file[n].key)
  THEN <<>>
  ELSE [n \in 1..Len(file) |-> CustomEntry(file[n])]

newPlaceholders(file) ==
  LET valid == SelectSeq(file, LAMBDA e : ValidRegex(e.key))
  IN [n \in 1..Len(valid) |-> CustomEntry(valid[n])]

RECURSIVE reduceFiles(_)
reduceFiles(files) ==
  IF files = <<>> THEN <<>>
  ELSE Spread(reduceFiles(SubSeq(files, 1, Len(files) - 1)), newPlaceholders(files[Len(files)]))

\* cfg.supportFile is custom-placeholders.json of the support directory,
\* cfg.customPlaceholderFiles the files of the preference of that name.
customPlaceholderFiles(cfg) ==
  <<cfg.supportFile>> \o (IF cfg.allowCustomPlaceholderPaths THEN cfg.customPlaceholderFiles ELSE <<>>)

loadCustomPlaceholders(cfg) == reduceFiles(customPlaceholderFiles(cfg))

customPlaceholders(cfg) ==
  IF cfg.allowCustomPlaceholders THEN loadCustomPlaceholders(cfg) ELSE <<>>

\* const sortedPlaceholders = { ...customPlaceholders, ...placeholders }
sortedPlaceholders(cfg) == Spread(customPlaceholders(cfg), placeholders)

\* The rest of the state.
VARIABLES
  config,               \* advanced settings, preferences and custom placeholder files
  persistentVariables,  \* the list stored under StorageKeys.PERSISTENT_VARIABLES
  usedUUIDs,            \* the value stored under StorageKeys.USED_UUIDS
  pc,                   \* position of the bulkApply call: idle, seed, resolve, returned, threw
  str,                  \* bulkApply's argument str
  context,              \* bulkApply's argument context, as ordered pairs
  subbedStr,            \* bulkApply's local subbedStr
  result,               \* bulkApply's local result (the run's context)
  index,                \* position of the for loop over allPlaceholders
  keysToCheck,          \* keysToCheck of the entry at index
  keyIndex,             \* position of the for loop over keysToCheck
  callers,              \* the asynchronous calls in flight besides bulkApply, per caller
  frames,               \* the nested calls of runReplacements in flight, innermost last
  evalLog,              \* history: the evaluator calls of this bulkApply call
  atCall                \* history: the durable state when bulkApply was called

vars == <<config, persistentVariables, usedUUIDs, localStorage, pc, str, context, subbedStr,
          result, index, keysToCheck, keyIndex, callers, frames, evalLog, atCall>>

allPlaceholders == sortedPlaceholders(config)

\* ---------------------------------------------------------------- bulkApply
\* allPlaceholders.find(placeholder => placeholder.name == name): 0 if none.
IndexOfPlaceholderName(all, name) ==
  IF \E n \in 1..Len(all) : all[n].name = name
  THEN CHOOSE n \in 1..Len(all) :
         /\ all[n].name = name
         /\ \A m \in 1..(n - 1) : all[m].name # name
  ELSE 0

\* The keys of the dependencies of p that are found in the registry.
RECURSIVE dependencyKeys(_, _)
dependencyKeys(all, dependencies) ==
  IF dependencies = <<>> THEN <<>>
  ELSE LET n == IndexOfPlaceholderName(all, Head(dependencies))
       IN (IF n = 0 THEN <<>> ELSE <<all[n].key>>) \o dependencyKeys(all, Tail(dependencies))

\* keysToCheck of entry p for the text s and the context r; the empty list
\* when the loop body is left by one of its two `continue` statements.
entryKeys(all, p, s, r) ==
  LET present == SelectSeq(p.aliases, LAMBDA alias : HasMatch(s, alias))
                 \o (IF HasMatch(s, p.key) THEN <<p.key>> ELSE <<>>)
      result_keys == SelectSeq(p.result_keys,
                               LAMBDA key : key \notin DOMAIN r \/ (r[key] = <<>> /\ key = "input"))
  IN IF Len(present) = 0 THEN <<>>
     ELSE IF p.hasResultKeys /\ Len(result_keys) = 0 THEN <<>>
     ELSE present \o dependencyKeys(all, p.dependencies)

\* First position from k on in keys whose pattern matches s (Len(keys) + 1 if none).
nextKey(keys, k, s) ==
  IF \E n \in k..Len(keys) : HasMatch(s, keys[n])
  THEN CHOOSE n \in k..Len(keys) :
         /\ HasMatch(s, keys[n])
         /\ \A m \in k..(n - 1) : ~HasMatch(s, keys[m])
  ELSE Len(keys) + 1

\* First entry from i on whose loop body evaluates something (Len(all) + 1 if none).
RECURSIVE nextEntry(_, _, _, _)
nextEntry(all, i, s, r) ==
  IF i > Len(all) THEN Len(all) + 1
  ELSE IF entryKeys(all, all[i], s, r) # <<>> THEN i
  ELSE nextEntry(all, i + 1, s, r)

\* The seed substitution loop over the context, lines 2858-2871: the text and
\* the store after the pairs of the seed have been handled in order.
RECURSIVE seedPass(_, _, _, _, _)
seedPass(all, pairs, s, store, statistics) ==
  IF pairs = <<>> THEN [text |-> s, store |-> store]
  ELSE LET contextKey == Head(pairs)[1]
           value == Head(pairs)[2]
           n == IndexOfPlaceholderName(all, contextKey)
           hit == /\ n # 0
                  /\ ~(contextKey = "input" /\ value = <<>>)
                  /\ HasMatch(s, all[n].key)
       IN seedPass(all, Tail(pairs),
                   IF hit THEN ReplaceAll(s, all[n].key, value) ELSE s,
                   IF hit /\ statistics THEN incrementCount(store, contextKey) ELSE store,
                   statistics)

Log(log, entry) == IF Len(log) < MaxLog THEN Append(log, entry) ELSE log

CountsBounded(store) == \A n \in 1..Len(store) : parseInt(store[n].value) <= MaxCount

\* Where the loops of lines 2873-2930 stand once the text is s and the
\* context r, continuing after entry i: the next evaluation, or the return.
positionAtEntry(all, j, s, r) ==
  IF j <= Len(all)
  THEN [pc |-> "resolve", index |-> j, keysToCheck |-> entryKeys(all, all[j], s, r),
        keyIndex |-> nextKey(entryKeys(all, all[j], s, r), 1, s)]
  ELSE [pc |-> "returned", index |-> j, keysToCheck |-> <<>>, keyIndex |-> 0]

position(all, i, keys, k, s, r) ==
  IF nextKey(keys, k, s) <= Len(keys)
  THEN [pc |-> "resolve", index |-> i, keysToCheck |-> keys, keyIndex |-> nextKey(keys, k, s)]
  ELSE CHOOSE next \in {positionAtEntry(all, j, s, r) : j \in {nextEntry(all, i + 1, s, r)}} : TRUE

\* bulkApply without the early return of line 2848.
processPlaceholdersIgnored(cfg) == TRUE

\* if (!settings.processPlaceholders) return str;
processPlaceholders(cfg) == cfg.processPlaceholders

\* The call of bulkApply(s, ctx), up to the seed substitution loop.
bulkApply(s, ctx) ==
  /\ pc = "idle"
  /\ str' = s
  /\ context' = ctx
  /\ subbedStr' = s
  /\ evalLog' = <<>>
  /\ atCall' = [store |-> persistentVariables, ledger |-> usedUUIDs, items |-> localStorage]
  /\ index' = 0
  /\ keysToCheck' = <<>>
  /\ keyIndex' = 0
  /\ IF ~processPlaceholders(config)
     THEN pc' = "returned" /\ result' = EmptyContext
     ELSE pc' = "seed" /\ result' = ContextOf(ctx)
  /\ UNCHANGED <<config, frames, persistentVariables, usedUUIDs, localStorage, callers>>

\* Lines 2857-2871: apply the substitutions that are already in the context.
SeedSubstitution ==
  /\ pc = "seed"
  /\ \E all \in {allPlaceholders} :
     \E seeded \in {seedPass(all, context, subbedStr, persistentVariables,
                             config.usePlaceholderStatistics)} :
     \E next \in {position(all, 0, <<>>, 1, seeded.text, result)} :
        /\ CountsBounded(seeded.store)
        /\ subbedStr' = seeded.text
        /\ persistentVariables' = seeded.store
        /\ pc' = next.pc
        /\ index' = next.index
        /\ keysToCheck' = next.keysToCheck
        /\ keyIndex' = next.keyIndex
  /\ UNCHANGED <<config, frames, usedUUIDs, localStorage, callers, str, context, result, evalLog, atCall>>

\* subbedStr after the replacement of lines 2911-2915.
replaced(p, s, newKey, text) ==
  IF p.constant THEN ReplaceAll(s, newKey, text) ELSE ReplaceFirst(s, newKey, text)

\* One iteration of the while loop of lines 2902-2928.
ApplyPlaceholder ==
  /\ pc = "resolve"
  /\ \E all \in {allPlaceholders} :
     \E placeholder \in {all[index]} :
     \E newKey \in {keysToCheck[keyIndex]} :
     \E intermediateResult \in apply(placeholder, subbedStr, result, persistentVariables, usedUUIDs) :
     \E store \in {IF config.usePlaceholderStatistics
                   THEN incrementCount(intermediateResult.store, placeholder.name)
                   ELSE intermediateResult.store} :
     \E text \in {replaced(placeholder, subbedStr, newKey, intermediateResult.res.result)} :
     \E merged \in {Merge(result, intermediateResult.res)} :
     \E next \in {position(all, index, keysToCheck,
                           IF placeholder.constant THEN keyIndex + 1 ELSE keyIndex,
                           text, merged)} :
        /\ evalLog' = Log(evalLog, [name |-> placeholder.name, key |-> newKey,
                                    context |-> result,
                                    token |-> subbedStr[FirstMatch(subbedStr, newKey)],
                                    threw |-> intermediateResult.threw,
                                    result |-> intermediateResult.res.result])
        /\ usedUUIDs' = intermediateResult.ledger
        /\ localStorage' = IF "items" \in DOMAIN intermediateResult
                           THEN intermediateResult.items ELSE localStorage
        /\ IF intermediateResult.threw
           THEN /\ pc' = "threw"
                /\ persistentVariables' = intermediateResult.store
                /\ UNCHANGED <<subbedStr, result, index, keysToCheck, keyIndex>>
           ELSE /\ CountsBounded(store)
                /\ persistentVariables' = store
                /\ subbedStr' = text
                /\ result' = merged
                /\ pc' = next.pc
                /\ index' = next.index
                /\ keysToCheck' = next.keysToCheck
                /\ keyIndex' = next.keyIndex
  /\ UNCHANGED <<config, frames, callers, str, context, atCall>>

\* The promise of bulkApply is settled (fulfilled with subbedStr, or rejected)
\* and the caller has taken the outcome; the locals of the call are gone.
Settled ==
  /\ pc \in {"returned", "threw"}
  /\ pc' = "idle"
  /\ str' = <<>>
  /\ context' = <<>>
  /\ subbedStr' = <<>>
  /\ result' = EmptyContext
  /\ index' = 0
  /\ keysToCheck' = <<>>
  /\ keyIndex' = 0
  /\ evalLog' = <<>>
  /\ atCall' = [store |-> persistentVariables, ledger |-> usedUUIDs, items |-> localStorage]
  /\ UNCHANGED <<config, frames, persistentVariables, usedUUIDs, localStorage, callers>>

\* -------------------------------------------------- calls besides bulkApply
bulkApplyVars ==
  <<pc, str, context, subbedStr, result, index, keysToCheck, keyIndex, evalLog, atCall>>

\* Caller c calls setPersistentVariable(name, value), resetPersistentVariable(name),
\* deletePersistentVariable(name) or getPersistentVariable(name); the call runs
\* up to `await getStorage(...)`.
InvokeStore(c, op, name, value) ==
  /\ callers[c].pc = "idle"
  /\ callers' = [callers EXCEPT ![c] =
                   [Idle EXCEPT !.pc = "getStorage", !.op = op, !.name = name, !.value = value]]
  /\ UNCHANGED <<config, frames, persistentVariables, usedUUIDs, localStorage, bulkApplyVars>>

\* const vars = await getStorage(StorageKeys.PERSISTENT_VARIABLES)
GetStorage(c) ==
  /\ callers[c].pc = "getStorage"
  /\ callers' = [callers EXCEPT ![c].pc = "setStorage", ![c].vars = persistentVariables]
  /\ UNCHANGED <<config, frames, persistentVariables, usedUUIDs, localStorage, bulkApplyVars>>

\* The rest of the function: the change of its copy of the list, then
\* `await setStorage(StorageKeys.PERSISTENT_VARIABLES, vars)` where the
\* function writes, and the return.
\* A value that is no list has no method find: `vars.find(...)`, the first
\* statement after the read in each of the four functions, raises a TypeError.
SetStorage(c) ==
  /\ callers[c].pc = "setStorage"
  /\ \E call \in {callers[c]} :
     \E found \in {IndexOfName(call.vars, call.name) # 0} :
       IF ~isArray(call.vars)
       THEN /\ callers' = [callers EXCEPT ![c].pc = "raised"]
            /\ UNCHANGED persistentVariables
       ELSE /\ persistentVariables' =
                 CASE call.op = "set" -> setPersistentVariable(call.vars, call.name, call.value)
                   [] call.op = "reset" /\ found -> resetPersistentVariable(call.vars, call.name).store
                   [] call.op = "delete" /\ found -> deletePersistentVariable(call.vars, call.name)
                   [] OTHER -> persistentVariables
            /\ callers' = [callers EXCEPT ![c].pc = "done", ![c].returned =
                             CASE call.op = "reset" -> resetPersistentVariable(call.vars, call.name).returned
                               [] call.op = "get" -> getPersistentVariable(call.vars, call.name)
                               [] OTHER -> <<>>]
  /\ UNCHANGED <<config, frames, usedUUIDs, localStorage, bulkApplyVars>>

\* Caller c runs the evaluator of {{increment:name}} (for one of two
\* independent bulkApply calls), up to `await LocalStorage.getItem(identifier)`.
InvokeIncrement(c, name) ==
  /\ callers[c].pc = "idle"
  /\ callers' = [callers EXCEPT ![c] =
                   [Idle EXCEPT !.pc = "getItem", !.op = "increment", !.name = name,
                                !.before = getItem(localStorage, Identifier(name))]]
  /\ UNCHANGED <<config, frames, persistentVariables, usedUUIDs, localStorage, bulkApplyVars>>

\* const value = parseInt((await LocalStorage.getItem(identifier)) || "0") + 1
GetItem(c) ==
  /\ callers[c].pc = "getItem"
  /\ callers' = [callers EXCEPT ![c].pc = "setItem", ![c].value =
                   CountText(nextValue(localStorage, Identifier(callers[c].name)))]
  /\ UNCHANGED <<config, frames, persistentVariables, usedUUIDs, localStorage, bulkApplyVars>>

\* await LocalStorage.setItem(identifier, value.toString()); return { result: ... }
SetItem(c) ==
  /\ callers[c].pc = "setItem"
  /\ localStorage' = setItem(localStorage, Identifier(callers[c].name), callers[c].value)
  /\ callers' = [callers EXCEPT ![c].pc = "done", ![c].returned = callers[c].value]
  /\ UNCHANGED <<config, frames, persistentVariables, usedUUIDs, bulkApplyVars>>

\* The caller has taken the outcome of its call.
Return(c) ==
  /\ callers[c].pc \in {"done", "raised"}
  /\ callers' = [callers EXCEPT ![c] = Idle]
  /\ UNCHANGED <<config, frames, persistentVariables, usedUUIDs, localStorage, bulkApplyVars>>

\* ----------------------------------------------------- checkForPlaceholders
\* The word a token carries once "{{" and "}}" or the character before the
\* word are taken away. Among the tokens modelled a word occurs in a token
\* exactly when it is the word of that token.
Word(token) ==
  CASE token = "{{uuid}}" -> "uuid"
    [] token = "{{UUID}}" -> "UUID"
    [] token = "{{clipboardText}}" -> "clipboardText"
    [] token = "{{clipboard}}" -> "clipboard"
    [] token = "{{currentDirectory}}" -> "currentDirectory"
    [] token = " currentDirectory" -> "currentDirectory"
    [] token = "/currentDirectory" -> "currentDirectory"
    [] OTHER -> token

\* The word of the token stands between "{{" and "}}".
Bracketed(token) ==
  token \in {"{{uuid}}", "{{UUID}}", "{{clipboardText}}", "{{clipboard}}", "{{currentDirectory}}"}

\* str.match(new RegExp(pattern.replace("{{", "").replace("}}", ""), "g")) != undefined
HasWord(s, pattern) ==
  \E n \in 1..Len(s) : Word(s[n]) \in {Word(token) : token \in Lang(pattern)}

\* str.match(new RegExp(`(?<!{{)${name}(?!}})`, "g")) != undefined
HasBareName(s, name) == \E n \in 1..Len(s) : ~Bracketed(s[n]) /\ Word(s[n]) = name

\* The "(^| )" in front of a pattern: the word of token n starts the text or
\* follows a space.
AfterSpace(s, n) ==
  /\ ~Bracketed(s[n])
  /\ \/ s[n] = " currentDirectory"
     \/ n = 1 /\ Word(s[n]) = s[n]

\* str.match(new RegExp("(^| )" + key.replace("{{", "").replace("}}", ""), "g")) != undefined
HasSpacedWord(s, pattern) ==
  \E n \in 1..Len(s) :
    AfterSpace(s, n) /\ Word(s[n]) \in {Word(token) : token \in Lang(pattern)}

\* str.match(new RegExp(`(^| )(?<!{{)${name}(?!}})`, "g")) != undefined
HasSpacedName(s, name) == \E n \in 1..Len(s) : AfterSpace(s, n) /\ Word(s[n]) = name

\* The filter of lines 2809-2825.
included(p, s) ==
  IF p.aliases # <<>>
  THEN \E a \in 1..Len(p.aliases) :
         \/ HasMatch(s, p.key)
         \/ HasMatch(s, p.aliases[a])
         \/ HasWord(s, p.aliases[a])
         \/ HasBareName(s, p.name)
  ELSE \/ HasMatch(s, p.key)
       \/ HasSpacedWord(s, p.key)
       \/ HasSpacedName(s, p.name)

\* The comparator of lines 2826-2835.
compare(s, a, b) ==
  IF HasMatch(s, a.key) THEN -1
  ELSE IF HasMatch(s, b.key) THEN 1
  ELSE 0

\* Array.prototype.sort of the engine for a list of fewer than 64 elements:
\* the first run is counted (and reversed when it descends), then every
\* further element is put in place by a binary search, the comparator being
\* called with the later element first.
RECURSIVE runLength(_, _, _, _)
runLength(s, list, descending, n) ==
  IF n >= Len(list) THEN n
  ELSE LET order == compare(s, list[n + 1], list[n])
       IN IF (descending /\ order < 0) \/ (~descending /\ order >= 0)
          THEN runLength(s, list, descending, n + 1)
          ELSE n

Reverse(list) == [n \in 1..Len(list) |-> list[Len(list) + 1 - n]]

RECURSIVE search(_, _, _, _, _)
search(s, list, pivot, left, right) ==
  IF left >= right THEN left
  ELSE LET mid == left + ((right - left) \div 2)
       IN IF compare(s, pivot, list[mid]) < 0
          THEN search(s, list, pivot, left, mid)
          ELSE search(s, list, pivot, mid + 1, right)

RECURSIVE binaryInsertion(_, _, _)
binaryInsertion(s, list, start) ==
  IF start > Len(list) THEN list
  ELSE LET pivot == list[start]
           left == search(s, list, pivot, 1, start)
       IN binaryInsertion(s,
                          SubSeq(list, 1, left - 1) \o <<pivot>> \o SubSeq(list, left, start - 1)
                          \o SubSeq(list, start + 1, Len(list)),
                          start + 1)

\* sort that leaves the list as the filter produced it.
sortKeepsOrder(s, list) == list

sort(s, list) ==
  IF Len(list) < 2 THEN list
  ELSE LET descending == compare(s, list[2], list[1]) < 0
           run == runLength(s, list, descending, 2)
           made == (IF descending THEN Reverse(SubSeq(list, 1, run)) ELSE SubSeq(list, 1, run))
                   \o SubSeq(list, run + 1, Len(list))
       IN binaryInsertion(s, made, run + 1)

includedPlaceholders(cfg, s) ==
  IF ~cfg.processPlaceholders THEN <<>>
  ELSE sort(s, SelectSeq(sortedPlaceholders(cfg), LAMBDA p : included(p, s)))

\* checkForPlaceholders with its own usage counted as bulkApply counts usage.
checkForPlaceholdersCounting(c, s) ==
  /\ callers[c].pc = "idle"
  /\ \E list \in {includedPlaceholders(config, s)} :
       callers' = [callers EXCEPT ![c] =
                     [Idle EXCEPT !.pc = "done", !.op = "check", !.value = s,
                                  !.returned = [n \in 1..Len(list) |-> list[n].name]]]
  /\ persistentVariables' = incrementCount(persistentVariables, "checkForPlaceholders")
  /\ UNCHANGED <<config, frames, usedUUIDs, localStorage, bulkApplyVars>>

\* Caller c calls checkForPlaceholders(s) and has the descriptors returned
\* (here by their names).
checkForPlaceholders(c, s) ==
  /\ callers[c].pc = "idle"
  /\ \E list \in {includedPlaceholders(config, s)} :
       callers' = [callers EXCEPT ![c] =
                     [Idle EXCEPT !.pc = "done", !.op = "check", !.value = s,
                                  !.returned = [n \in 1..Len(list) |-> list[n].name]]]
  /\ UNCHANGED <<config, frames, persistentVariables, usedUUIDs, localStorage, bulkApplyVars>>

\* ---------------------------------------------------------- runReplacements
\* A stored command is the item <<name, prompt...>>; JSON.parse gives its fields.
JSONParse(cmdString) == [name |-> Head(cmdString), prompt |-> Tail(cmdString)]

\* `{{${cmd.name}}}`
CommandToken(name) == "{{" \o name \o "}}"

\* prompt.replaceAll(token, replacement) with a string for pattern.
RECURSIVE replaceAll(_, _, _)
replaceAll(prompt, token, replacement) ==
  IF prompt = <<>> THEN <<>>
  ELSE (IF Head(prompt) = token THEN Substitute(replacement, token) ELSE <<Head(prompt)>>)
       \o replaceAll(Tail(prompt), token, replacement)

\* Object.values(await LocalStorage.allItems()): the items in one of their orders.
allItems(items) ==
  {order \in [1..Cardinality(DOMAIN items) -> DOMAIN items] :
     \A i, j \in DOMAIN order : i # j => order[i] # order[j]}

\* unstable_AI.ask(prompt): a response, which can name a command, or it raises.
Ask(prompt) == {Returns(<<"R">>), Returns(<<"{{b}}">>), Raises}

\* The call runReplacements(prompt, replacements, disallowedCommands) up to
\* its loop over the stored commands. The texts modelled hold no simple
\* placeholder, script, URL or file placeholder: lines 170-183 leave them as
\* they are.
Frame(prompt, disallowedCommands, order) ==
  [subbedPrompt |-> prompt, disallowedCommands |-> disallowedCommands, order |-> order, i |-> 1]

\* The nested call that passes disallowedCommands on as it got it.
NestedDisallowedUnchanged(cmd, disallowedCommands) == disallowedCommands

\* [cmd.name, ...disallowedCommands]
NestedDisallowed(cmd, disallowedCommands) == <<cmd.name>> \o disallowedCommands

\* Caller c calls runReplacements(prompt, replacements, disallowedCommands).
runReplacements(c, prompt, disallowedCommands) ==
  /\ callers[c].pc = "idle"
  /\ frames = <<>>
  /\ \E order \in allItems(localStorage) :
       frames' = <<Frame(prompt, disallowedCommands, order)>>
  /\ callers' = [callers EXCEPT ![c] =
                   [Idle EXCEPT !.pc = "runReplacements", !.op = "runReplacements", !.value = prompt]]
  /\ UNCHANGED <<config, persistentVariables, usedUUIDs, localStorage, bulkApplyVars>>

\* One iteration of the loop of lines 186-194 in the innermost call, up to
\* the nested call: the command is passed over, or its prompt is expanded by
\* a nested call of runReplacements.
ExpandCommand ==
  /\ frames # <<>>
  /\ \E frame \in {frames[Len(frames)]} :
       /\ frame.i <= Len(frame.order)
       /\ \E cmd \in {JSONParse(localStorage[frame.order[frame.i]])} :
            IF /\ cmd.name \notin Range(frame.disallowedCommands)
               /\ CommandToken(cmd.name) \in Range(frame.subbedPrompt)
            THEN /\ Len(frames) < MaxDepth
                 /\ \E order \in allItems(localStorage) :
                      frames' = Append(frames,
                                       Frame(cmd.prompt,
                                             NestedDisallowed(cmd, frame.disallowedCommands),
                                             order))
            ELSE frames' = [frames EXCEPT ![Len(frames)].i = frame.i + 1]
  /\ UNCHANGED <<config, persistentVariables, usedUUIDs, localStorage, callers, bulkApplyVars>>

\* The nested call returns its text; the calling one asks the model with it
\* and puts the response in the place of the command's placeholder.
AskAI ==
  /\ Len(frames) > 1
  /\ frames[Len(frames)].i > Len(frames[Len(frames)].order)
  /\ \E nested \in {frames[Len(frames)]}, frame \in {frames[Len(frames) - 1]} :
     \E cmd \in {JSONParse(localStorage[frame.order[frame.i]])} :
     \E cmdResponse \in Ask(nested.subbedPrompt) :
       IF cmdResponse.ok
       THEN /\ frames' = [SubSeq(frames, 1, Len(frames) - 1) EXCEPT ![Len(frames) - 1] =
                            [frame EXCEPT !.subbedPrompt =
                                            replaceAll(frame.subbedPrompt, CommandToken(cmd.name),
                                                       cmdResponse.text),
                                          !.i = frame.i + 1]]
            /\ UNCHANGED callers
       ELSE /\ frames' = <<>>
            /\ callers' = [c \in Callers |->
                             IF callers[c].pc = "runReplacements"
                             THEN [callers[c] EXCEPT !.pc = "raised"]
                             ELSE callers[c]]
  /\ UNCHANGED <<config, persistentVariables, usedUUIDs, localStorage, bulkApplyVars>>

\* return subbedPrompt of the outermost call.
ReturnPrompt ==
  /\ Len(frames) = 1
  /\ frames[1].i > Len(frames[1].order)
  /\ frames' = <<>>
  /\ callers' = [c \in Callers |->
                   IF callers[c].pc = "runReplacements"
                   THEN [callers[c] EXCEPT !.pc = "done", !.returned = frames[1].subbedPrompt]
                   ELSE callers[c]]
  /\ UNCHANGED <<config, persistentVariables, usedUUIDs, localStorage, bulkApplyVars>>

\* ---------------------------------------------------------- specifications
\* The texts of at most MaxLen tokens over a set of tokens.
Templates(tokens) == UNION {[1..n -> tokens] : n \in 1..MaxLen}

DefaultConfig ==
  [processPlaceholders |-> TRUE, allowCustomPlaceholders |-> TRUE,
   allowCustomPlaceholderPaths |-> TRUE, usePlaceholderStatistics |-> FALSE,
   supportFile |-> <<>>, customPlaceholderFiles |-> <<>>]

\* No call made, nothing in the UUID ledger and the local storage items.
InitStored(configs, stores, items) ==
  /\ config \in configs
  /\ persistentVariables \in stores
  /\ frames = <<>>
  /\ usedUUIDs = [isArray |-> TRUE, list |-> <<>>]
  /\ localStorage \in items
  /\ callers = [c \in Callers |-> Idle]
  /\ pc = "idle"
  /\ str = <<>>
  /\ context = <<>>
  /\ subbedStr = <<>>
  /\ result = EmptyContext
  /\ index = 0
  /\ keysToCheck = <<>>
  /\ keyIndex = 0
  /\ evalLog = <<>>
  /\ atCall = [store |-> persistentVariables, ledger |-> usedUUIDs, items |-> localStorage]

\* A fresh installation: nothing stored, no call made.
InitWith(configs) == InitStored(configs, {<<>>}, {NoItems})

\* An awaited step of a running call is eventually taken.
Fairness == WF_vars(SeedSubstitution) /\ WF_vars(ApplyPlaceholder)

\* Persistent variables: {{get x}} and {{set x:...}}, processing on or off,
\* usage statistics on or off.
VarsTokens == {"A", "{{get x}}", "{{set x:v}}", "{{set x:$&}}"}
VarsConfigs ==
  {[DefaultConfig EXCEPT !.processPlaceholders = p, !.usePlaceholderStatistics = u]
     : p \in BOOLEAN, u \in BOOLEAN}
InitVars == InitWith(VarsConfigs)
VarsSeeds == {<<>>, << <<"input", <<"hello">> >> >>}
CallVars == \E s \in Templates(VarsTokens), ctx \in VarsSeeds : bulkApply(s, ctx)
NextVars == CallVars \/ SeedSubstitution \/ ApplyPlaceholder \/ Settled
SpecVars == InitVars /\ [][NextVars]_vars

\* Custom placeholders: a custom entry under the key of a built-in, a custom
\* entry under a key of its own, and a malformed key.
ClipboardOverride == [key |-> KeyClipboardText, name |-> "myClipboard", value |-> <<"CUSTOM">>]
Greet == [key |-> KeyGreet, name |-> "greet", value |-> <<"HELLO">>]
Invalid == [key |-> KeyInvalid, name |-> "broken", value |-> <<"BROKEN">>]
CustomTokens == {"A", "{{clipboardText}}", "{{greet}}"}
CustomConfigs ==
  {[DefaultConfig EXCEPT !.allowCustomPlaceholders = a, !.allowCustomPlaceholderPaths = b,
                         !.supportFile = f, !.customPlaceholderFiles = g]
     : a \in BOOLEAN, b \in BOOLEAN,
       f \in {<<>>, <<ClipboardOverride>>, <<Greet, Invalid>>},
       g \in {<<>>, <<(<<ClipboardOverride, Greet>>)>>}}
InitCustom == InitWith(CustomConfigs)
CallCustom == \E s \in Templates(CustomTokens) : bulkApply(s, <<>>)
NextCustom == CallCustom \/ SeedSubstitution \/ ApplyPlaceholder \/ Settled
SpecCustom == InitCustom /\ [][NextCustom]_vars

\* Context directives: constant directives with aliases, a dependency, and
\* an evaluator without a try block; with and without a seed context.
ContextTokens ==
  {"A", "{{clipboardText}}", "{{clipboard}}", "{{currentAppName}}", "{{currentURL}}",
   "{{currentDirectory}}"}
ContextSeeds ==
  {<<>>, << <<"currentAppName", <<"Finder">> >> >>, << <<"clipboardText", <<"seeded">> >> >>}
InitContext == InitWith({DefaultConfig})
CallContext == \E s \in Templates(ContextTokens), ctx \in ContextSeeds : bulkApply(s, ctx)
NextContext == CallContext \/ SeedSubstitution \/ ApplyPlaceholder \/ Settled
SpecContext == InitContext /\ [][NextContext]_vars

\* The UUID generator and its ledger.
UUIDTokens == {"A", "{{uuid}}", "{{UUID}}"}
Count(s, tokens) == Cardinality({n \in 1..Len(s) : s[n] \in tokens})
InitUUID == InitWith({DefaultConfig})
CallUUID ==
  \E s \in Templates(UUIDTokens) :
    /\ Len(usedUUIDs.list) + Count(s, {"{{uuid}}", "{{UUID}}"}) <= MaxUUIDs
    /\ bulkApply(s, <<>>)
NextUUID == CallUUID \/ SeedSubstitution \/ ApplyPlaceholder \/ Settled
SpecUUID == InitUUID /\ [][NextUUID]_vars

\* Files whose text holds a file directive.
FileTokens == {"A", "{{file:/p}}", "{{file:/q}}"}
InitFile == InitWith({DefaultConfig})
CallFile == \E s \in Templates(FileTokens) : bulkApply(s, <<>>)
NextFile == CallFile \/ SeedSubstitution \/ ApplyPlaceholder \/ Settled
SpecFile == InitFile /\ [][NextFile]_vars /\ Fairness

\* Shell scripts.
ShellTokens == {"A", "B", "{{shell:false}}", "{{shell:cat /p}}"}
InitShell == InitWith({DefaultConfig})
CallShell == \E s \in Templates(ShellTokens) : bulkApply(s, <<>>)
NextShell == CallShell \/ SeedSubstitution \/ ApplyPlaceholder \/ Settled
SpecShell == InitShell /\ [][NextShell]_vars

\* The persistent variable store, one operation at a time: the exported
\* functions called directly, and the directives of a template.
Names == {"x", "y"}
Values == {<<"v">>, <<"w">>}
StoreOps == {"set", "reset", "delete", "get"}
StoreTokens == {"{{set x:v}}", "{{reset x}}", "{{delete x}}"}
NoCallInFlight == pc = "idle" /\ \A c \in Callers : callers[c].pc = "idle"
InitStore == InitWith({DefaultConfig})
CallStore == NoCallInFlight /\ \E s \in Templates(StoreTokens) : bulkApply(s, <<>>)
CallStoreFunction ==
  /\ NoCallInFlight
  /\ \E op \in StoreOps, name \in Names, value \in Values : InvokeStore("p", op, name, value)
NextStore ==
  \/ CallStore \/ SeedSubstitution \/ ApplyPlaceholder \/ Settled
  \/ CallStoreFunction
  \/ \E c \in Callers : GetStorage(c)
  \/ \E c \in Callers : SetStorage(c)
  \/ \E c \in Callers : Return(c)
SpecStore == InitStore /\ [][NextStore]_vars

\* The store functions called on a storage entry that is missing (the empty
\* list) or that holds a value that is no list.
InitCorrupt == InitStored({DefaultConfig}, {<<>>, NotAList}, {NoItems})
NextCorrupt ==
  \/ CallStoreFunction
  \/ \E c \in Callers : GetStorage(c)
  \/ \E c \in Callers : SetStorage(c)
  \/ \E c \in Callers : Return(c)
SpecCorrupt == InitCorrupt /\ [][NextCorrupt]_vars

\* Two callers whose calls interleave at their awaits; each caller writes a
\* value of its own.
ValueOf(c) == IF c = "p" THEN <<"v">> ELSE <<"w">>
CallConcurrently ==
  \E c \in Callers :
    \/ \E name \in Names : InvokeStore(c, "set", name, ValueOf(c))
    \/ /\ parseInt(getItem(localStorage, Identifier("c"))) + Cardinality(Callers) <= MaxCount
       /\ InvokeIncrement(c, "c")
InitConcurrent == InitWith({DefaultConfig})
NextConcurrent ==
  \/ CallConcurrently
  \/ \E c \in Callers : GetStorage(c)
  \/ \E c \in Callers : SetStorage(c)
  \/ \E c \in Callers : GetItem(c)
  \/ \E c \in Callers : SetItem(c)
  \/ \E c \in Callers : Return(c)
SpecConcurrent == InitConcurrent /\ [][NextConcurrent]_vars

\* Counters: {{increment:c}} and {{decrement:c}}, and plain text that holds
\* the word "increment:".
CounterTokens == {"A", "{{increment:c}}", "{{decrement:c}}", "increment:z}}"}
Stored(items, name) == parseInt(getItem(items, Identifier(name)))
InitCounter == InitWith({DefaultConfig})
CallCounter ==
  \E s \in Templates(CounterTokens) :
    /\ Stored(localStorage, "c") + Stored(localStorage, "z")
         + Count(s, {"{{increment:c}}", "{{decrement:c}}"}) <= MaxCount
    /\ bulkApply(s, <<>>)
NextCounter == CallCounter \/ SeedSubstitution \/ ApplyPlaceholder \/ Settled
SpecCounter == InitCounter /\ [][NextCounter]_vars

\* The flow-control directive {{images:...}} with a seed context that lists
\* the selected files.
ImagesTokens == {"A", "{{images:YES:NO}}", "{{images:YES}}", "{{selectedFiles}}"}
SelectedFilesSeeds ==
  {<<>>} \cup
  {<< <<"selectedFiles", csv>> >> :
     csv \in {<<"a.png", ",", "b.txt">>, <<"b.txt">>, <<"B.PNG">>, <<"mypng">>, <<>>}}
InitImages == InitWith({DefaultConfig})
CallImages ==
  \E s \in Templates(ImagesTokens), ctx \in SelectedFilesSeeds : bulkApply(s, ctx)
NextImages == CallImages \/ SeedSubstitution \/ ApplyPlaceholder \/ Settled
SpecImages == InitImages /\ [][NextImages]_vars

\* The flow-control directive {{pdf:...}} over lists of selected paths.
PDFTokens == {"A", "{{pdf:YES:NO}}"}
PDFSeeds ==
  {<<>>} \cup
  {<< <<"selectedFiles", csv>> >> :
     csv \in {<<"a.pdf", ",", "b.txt">>, <<"b.txt">>, <<"B.PDF">>, <<"mypdf">>, <<"a.png">>}}
InitPDF == InitWith({DefaultConfig})
CallPDF == \E s \in Templates(PDFTokens), ctx \in PDFSeeds : bulkApply(s, ctx)
NextPDF == CallPDF \/ SeedSubstitution \/ ApplyPlaceholder \/ Settled
SpecPDF == InitPDF /\ [][NextPDF]_vars

\* Seed contexts: the seeded name is the canonical name of a registry entry.
SeedTokens == {"A", "{{input}}", "{{currentURL}}", "{{currentTabURL}}", "{{clipboard}}"}
SeedContexts ==
  {<< <<name, value>> >> :
     name \in {"input"}, value \in {<<>>, <<"hello">>, <<"$&">>}}
  \cup {<< <<"currentURL", <<"http://s">> >> >>, << <<"clipboardText", <<"seeded">> >> >>}
InitSeed == InitWith({DefaultConfig})
CallSeed == \E s \in Templates(SeedTokens), ctx \in SeedContexts : bulkApply(s, ctx)
NextSeed == CallSeed \/ SeedSubstitution \/ ApplyPlaceholder \/ Settled
SpecSeed == InitSeed /\ [][NextSeed]_vars

\* Usage statistics: evaluations, a seed cache hit, and a variable that is
\* named like a usage counter.
StatisticsTokens == {"A", "{{get x}}", "{{input}}", "{{set get_count:v}}"}
StatisticsSeeds == {<<>>, << <<"input", <<"hello">> >> >>}
StatisticsConfigs == {[DefaultConfig EXCEPT !.usePlaceholderStatistics = u] : u \in BOOLEAN}
InitStatistics == InitWith(StatisticsConfigs)
CallStatistics ==
  \E s \in Templates(StatisticsTokens), ctx \in StatisticsSeeds : bulkApply(s, ctx)
NextStatistics == CallStatistics \/ SeedSubstitution \/ ApplyPlaceholder \/ Settled
SpecStatistics == InitStatistics /\ [][NextStatistics]_vars

\* The directive {{url:...}} and its alias {{http...}}.
URLTokens == {"A", "{{url:http://a}}", "{{http://b}}"}
InitURL == InitWith({DefaultConfig})
CallURL == \E s \in Templates(URLTokens) : bulkApply(s, <<>>)
NextURL == CallURL \/ SeedSubstitution \/ ApplyPlaceholder \/ Settled
SpecURL == InitURL /\ [][NextURL]_vars

\* Stored commands whose prompts name commands, themselves and each other
\* included.
CommandNames == {"a", "b"}
CommandPrompts ==
  UNION {[1..n -> {"X"} \cup {CommandToken(name) : name \in CommandNames}] : n \in 1..MaxPrompt}
CommandItems ==
  {[name \in CommandNames |-> <<name>> \o prompts[name]] : prompts \in [CommandNames -> CommandPrompts]}
InitCommands == InitStored({DefaultConfig}, {<<>>}, CommandItems)
CallCommands ==
  /\ NoCallInFlight
  /\ \E prompt \in {<<"{{a}}">>, <<"{{b}}", "{{a}}">>} : runReplacements("p", prompt, <<>>)
NextCommands ==
  \/ CallCommands
  \/ ExpandCommand
  \/ AskAI
  \/ ReturnPrompt
  \/ \E c \in Callers : Return(c)
SpecCommands ==
  InitCommands /\ [][NextCommands]_vars
  /\ WF_vars(ExpandCommand) /\ WF_vars(AskAI) /\ WF_vars(ReturnPrompt)

\* The advisory check next to expansions that fill the store and the ledger.
CheckTokens ==
  {"{{uuid}}", "uuid", "{{clipboard}}", "{{currentDirectory}}", " currentDirectory",
   "/currentDirectory"}
CheckConfigs ==
  {[DefaultConfig EXCEPT !.processPlaceholders = process, !.usePlaceholderStatistics = statistics] :
     process \in BOOLEAN, statistics \in BOOLEAN}
InitCheck == InitWith(CheckConfigs)
CallCheck ==
  /\ NoCallInFlight
  /\ usedUUIDs.list = <<>>
  /\ bulkApply(<<"{{uuid}}">>, <<>>)
CallCheckForPlaceholders ==
  /\ NoCallInFlight
  /\ \E s \in Templates(CheckTokens) : checkForPlaceholders("p", s)
NextCheck ==
  \/ CallCheck
  \/ SeedSubstitution
  \/ ApplyPlaceholder
  \/ Settled
  \/ CallCheckForPlaceholders
  \/ \E c \in Callers : Return(c)
SpecCheck == InitCheck /\ [][NextCheck]_vars

\* ------------------------------------------------------------- properties
PlaceholderNamed(name) == allPlaceholders[IndexOfPlaceholderName(allPlaceholders, name)]
Evaluations(name) == {m \in 1..Len(evalLog) : evalLog[m].name = name}

\* C1: within one bulkApply call a {{set x:v}} that textually precedes a
\* {{get x}} is evaluated before it, and the {{get x}} is replaced by v.
SetPrecedesGet(s) ==
  /\ \E i, j \in 1..Len(s) : i < j /\ s[i] = "{{set x:v}}" /\ s[j] = "{{get x}}"
  /\ "{{set x:$&}}" \notin Range(s)
C1_SetVisibleToLaterGet ==
  SetPrecedesGet(str) =>
    \A m \in Evaluations("get") :
      /\ evalLog[m].result = <<"v">>
      /\ \E l \in 1..(m - 1) : evalLog[l].name = "setPersistentVariable"

\* C2: a custom placeholder loaded under the pattern key of a built-in
\* directive is the descriptor the registry of bulkApply holds for that key,
\* and a template matching the key expands to the custom value.
OverrideLoaded ==
  /\ IndexOfKey(customPlaceholders(config), KeyClipboardText) # 0
  /\ IndexOfKey(customPlaceholders(config), KeyGreet) = 0
C2_CustomWins ==
  (pc = "returned" /\ OverrideLoaded /\ "{{clipboardText}}" \in Range(str)) =>
    /\ allPlaceholders[IndexOfKey(allPlaceholders, KeyClipboardText)].apply = "custom"
    /\ subbedStr = ReplaceAll(str, KeyClipboardText, <<"CUSTOM">>)

\* C3: when the evaluator of a directive with dependencies is called, the
\* evaluator of every dependency has run before in this call and the
\* dependency's field is in the context.
C3_DependencyEvaluatedFirst ==
  \A m \in 1..Len(evalLog) :
    \A dependencyName \in Range(PlaceholderNamed(evalLog[m].name).dependencies) :
      /\ dependencyName \in DOMAIN evalLog[m].context
      /\ \E l \in 1..(m - 1) : evalLog[l].name = dependencyName

\* C4: within one bulkApply call the evaluator of a constant directive is
\* invoked at most once, and every occurrence of its pattern and of its
\* aliases receives that one result.
ClipboardOnly(s) == Range(s) \subseteq {"A", "{{clipboardText}}", "{{clipboard}}"}
C4_ConstantEvaluatedOnce ==
  /\ \A n \in 1..Len(allPlaceholders) :
       allPlaceholders[n].constant => Cardinality(Evaluations(allPlaceholders[n].name)) <= 1
  /\ (pc = "returned" /\ context = <<>> /\ ClipboardOnly(str) /\ evalLog # <<>>) =>
       subbedStr = ReplaceAll(ReplaceAll(str, KeyClipboardText, evalLog[1].result),
                              AliasClipboard, evalLog[1].result)

\* C5: every occurrence of {{uuid}} / {{UUID}} is evaluated separately; the
\* substituted values are pairwise distinct and differ from every UUID of the
\* ledger as it was before the call, and each issued UUID is appended to the
\* ledger.
IsUUIDToken(token) == token \in {"{{uuid}}", "{{UUID}}"}
Issued == [m \in 1..Len(evalLog) |-> evalLog[m].result[1]]
C6_NoDirectiveLeft ==
  (pc = "returned" /\ processPlaceholders(config)) =>
    \A n \in 1..Len(allPlaceholders) :
      /\ ~HasMatch(subbedStr, allPlaceholders[n].key)
      /\ \A alias \in Range(allPlaceholders[n].aliases) : ~HasMatch(subbedStr, alias)

\* C7: every bulkApply call terminates and returns a string.
C7_Terminates == (pc \in {"seed", "resolve"}) ~> (pc = "returned")

\* C8: when the collaborator of a directive raises, the evaluation yields the
\* empty result and bulkApply returns; no exception leaves bulkApply.
C8_NoExceptionEscapes ==
  /\ pc # "threw"
  /\ \A m \in 1..Len(evalLog) : ~evalLog[m].threw

\* C9: a {{shell:...}} directive whose process raises is replaced by the empty
\* text and the surrounding text is kept; "A{{shell:false}}B" gives "AB" and
\* nothing is raised.
IsFailingShell(token) == token = "{{shell:false}}"
C9_ShellFailureIsEmpty ==
  /\ pc # "threw"
  /\ \A m \in 1..Len(evalLog) :
       (~evalLog[m].threw) /\ (IsFailingShell(evalLog[m].token) => evalLog[m].result = <<>>)
  /\ (pc = "returned" /\ "{{shell:cat /p}}" \notin Range(str)) =>
       subbedStr = SelectSeq(str, LAMBDA token : ~IsFailingShell(token))
C9_Witness ==
  /\ pc = "returned"
  /\ str = <<"A", "{{shell:false}}", "B">>
  /\ subbedStr = <<"A", "B">>
  /\ evalLog # <<>>

\* C10: with processPlaceholders false, bulkApply returns its argument
\* unchanged, calls no evaluator and writes nothing to the persistent
\* variable store or the UUID ledger.
C10_DisabledIsIdentity ==
  (~config.processPlaceholders) =>
    /\ pc \in {"idle", "returned"}
    /\ evalLog = <<>>
    /\ persistentVariables = atCall.store
    /\ usedUUIDs = atCall.ledger
    /\ pc = "returned" => subbedStr = str
C10_Witness ==
  /\ ~config.processPlaceholders
  /\ config.usePlaceholderStatistics
  /\ pc = "returned"
  /\ context # <<>>
  /\ "{{set x:v}}" \in Range(str)
  /\ subbedStr = str

\* C11: persistent variable round trips: get(x) right after set(x, v) returns
\* v; for x created with v and later set to v2, get(x) after reset(x) returns
\* v; get(x) right after delete(x) returns "".
Finished(op) == callers["p"].pc = "done" /\ callers["p"].op = op
C11_RoundTrips ==
  /\ \A name \in Names, value \in Values, value2 \in Values :
       /\ getPersistentVariable(setPersistentVariable(persistentVariables, name, value), name)
            = value
       /\ LET created == setPersistentVariable(deletePersistentVariable(persistentVariables, name),
                                               name, value)
              changed == setPersistentVariable(created, name, value2)
          IN getPersistentVariable(resetPersistentVariable(changed, name).store, name) = value
       /\ getPersistentVariable(deletePersistentVariable(persistentVariables, name), name) = <<>>
  /\ Finished("set") =>
       getPersistentVariable(persistentVariables, callers["p"].name) = callers["p"].value
  /\ Finished("delete") => getPersistentVariable(persistentVariables, callers["p"].name) = <<>>
C11_Witness ==
  /\ Finished("reset")
  /\ callers["p"].name = "x"
  /\ callers["p"].returned = <<"w">>
  /\ \E n \in 1..Len(callers["p"].vars) :
       callers["p"].vars[n] = [name |-> "x", value |-> <<"v">>, initialValue |-> <<"w">>]
  /\ getPersistentVariable(persistentVariables, "x") = <<"w">>
  /\ Len(persistentVariables) = 2

\* C12: after setPersistentVariable(name, v), and after
\* resetPersistentVariable(name) for an existing name, the record of name is
\* the last of the stored list and the other records keep their order.
Others(store, name) == SelectSeq(store, LAMBDA variable : variable.name # name)
IsLast(store, name) == store # <<>> /\ store[Len(store)].name = name
C12_MovedToTail ==
  \A name \in Names, value \in Values :
    /\ IsLast(setPersistentVariable(persistentVariables, name, value), name)
    /\ Others(setPersistentVariable(persistentVariables, name, value), name)
         = Others(persistentVariables, name)
    /\ IndexOfName(persistentVariables, name) # 0 =>
         /\ IsLast(resetPersistentVariable(persistentVariables, name).store, name)
         /\ Others(resetPersistentVariable(persistentVariables, name).store, name)
              = Others(persistentVariables, name)
    /\ (Finished("set") /\ callers["p"].name = name) => IsLast(persistentVariables, name)
C12_Witness ==
  /\ Finished("set")
  /\ callers["p"].name = "x"
  /\ Len(callers["p"].vars) = 2
  /\ callers["p"].vars[1].name = "x"
  /\ persistentVariables[2].name = "x"
  /\ persistentVariables[1] = callers["p"].vars[2]

\* C13: no set and no reset (function or directive) changes the initialValue
\* of a variable that exists: a variable that is stored before and after a
\* step has the same initialValue.
InitialValue(store, name) == store[IndexOfName(store, name)].initialValue
C13_InitialValueFixed ==
  [][\A name \in Names :
       (IndexOfName(persistentVariables, name) # 0 /\ IndexOfName(persistentVariables', name) # 0)
         => InitialValue(persistentVariables', name) = InitialValue(persistentVariables, name)]_vars
C13_Witness ==
  /\ pc = "returned"
  /\ str = <<"{{set x:v}}">>
  /\ IndexOfName(atCall.store, "x") # 0
  /\ InitialValue(atCall.store, "x") = <<"w">>
  /\ getPersistentVariable(persistentVariables, "x") = <<"v">>

\* C14: resetting a variable that does not exist is a no-op: after
\* resetPersistentVariable(x), and after a template of {{reset x}} directives
\* is expanded, with no x stored, the stored list is unchanged.
OnlyResets(s) == Range(s) \subseteq {"A", "{{reset x}}"} /\ "{{reset x}}" \in Range(s)
C14_ResetOfAbsentIsNoOp ==
  /\ (Finished("reset") /\ IndexOfName(callers["p"].vars, callers["p"].name) = 0) =>
       persistentVariables = callers["p"].vars
  /\ (pc = "returned" /\ OnlyResets(str) /\ IndexOfName(atCall.store, "x") = 0) =>
       persistentVariables = atCall.store

\* C15: with set, reset and delete executed one at a time from the empty
\* store, the stored list holds at most one record per name.
C15_UniqueNames ==
  \A n, m \in 1..Len(persistentVariables) :
    n # m => persistentVariables[n].name # persistentVariables[m].name
C15_Witness ==
  /\ Finished("set")
  /\ IndexOfName(callers["p"].vars, callers["p"].name) # 0
  /\ Len(persistentVariables) = 2

\* C16: no lost updates on the persistent variable store: when two callers
\* run setPersistentVariable for two different names with their storage reads
\* and writes interleaved in any order, both variables are stored with their
\* written values once both calls have finished.
BothFinished(op) == \A c \in Callers : callers[c].pc = "done" /\ callers[c].op = op
C16_NoLostUpdate ==
  (BothFinished("set") /\ callers["p"].name # callers["q"].name) =>
    \A c \in Callers :
      /\ IndexOfName(persistentVariables, callers[c].name) # 0
      /\ getPersistentVariable(persistentVariables, callers[c].name) = callers[c].value

\* C18: no lost updates on counters: when two independent evaluations of
\* {{increment:c}} interleave their LocalStorage get and set steps in any
\* order, the two substituted values differ and the stored counter has grown
\* by exactly 2.
CounterBefore ==
  IF parseInt(callers["p"].before) < parseInt(callers["q"].before)
  THEN parseInt(callers["p"].before) ELSE parseInt(callers["q"].before)
C18_NoLostIncrement ==
  BothFinished("increment") =>
    /\ callers["p"].returned # callers["q"].returned
    /\ parseInt(getItem(localStorage, Identifier("c"))) = CounterBefore + 2

\* C17: within one bulkApply call the n occurrences of {{increment:c}} of a
\* template are replaced left to right by k+1, ..., k+n, where k is the
\* stored value of counter c before the call (0 if absent), and the stored
\* value afterwards is k+n.
IsIncrement(token) == token = "{{increment:c}}"
C17_SuccessiveIncrements ==
  (pc = "returned" /\ "{{decrement:c}}" \notin Range(str) /\ "{{increment:c}}" \in Range(str)) =>
    /\ Len(subbedStr) = Len(str)
    /\ \A n \in 1..Len(str) :
         IsIncrement(str[n]) =>
           subbedStr[n] = ToString(Stored(atCall.items, "c")
                                   + Count(SubSeq(str, 1, n), {"{{increment:c}}"}))
    /\ Stored(localStorage, "c") = Stored(atCall.items, "c") + Count(str, {"{{increment:c}}"})

\* C19: evaluating {{decrement:c}} lowers counter c by exactly 1 and is
\* replaced by the lowered value; an {{increment:c}} followed by a
\* {{decrement:c}} leaves the stored counter at its original value.
C19_DecrementLowers ==
  (pc = "returned" /\ "increment:z}}" \notin Range(str) /\ "{{decrement:c}}" \in Range(str)) =>
    /\ Stored(localStorage, "c") = Stored(atCall.items, "c")
                                     + Count(str, {"{{increment:c}}"})
                                     - Count(str, {"{{decrement:c}}"})
    /\ Count(str, {"{{increment:c}}", "{{decrement:c}}"}) = 1 =>
         subbedStr = ReplaceAll(str, KeyDecrement, CountText(Stored(atCall.items, "c") - 1))

\* C20: {{images:S:F}} expanded by bulkApply gives S when the context field
\* selectedFiles lists at least one image file, F when selectedFiles is
\* present and non-empty but lists no image file, and the empty text when the
\* context has no selectedFiles field.
ImagesBody(token, ctx) ==
  IF "selectedFiles" \notin DOMAIN ctx THEN <<>>
  ELSE IF \E n \in 1..Len(split(ctx["selectedFiles"])) : isImageFile(split(ctx["selectedFiles"])[n])
       THEN onSuccess(token)
       ELSE onFailure(token)
SelectedFilesListed(ctx) == "selectedFiles" \in DOMAIN ctx => ctx["selectedFiles"] # <<>>
C20_ImagesBranch ==
  /\ \A m \in Evaluations("contentForImages") :
       SelectedFilesListed(evalLog[m].context) =>
         evalLog[m].result = ImagesBody(evalLog[m].token, evalLog[m].context)
  /\ (pc = "returned" /\ str = <<"{{images:YES:NO}}">> /\ SelectedFilesListed(result)) =>
       subbedStr = ImagesBody("{{images:YES:NO}}", result)

\* C21: a category flow-control predicate is true exactly when some path of
\* the comma-separated selectedFiles has an extension (the part after the
\* last dot, compared case-insensitively) of the category's set; a path whose
\* extension is not in the set never makes it true.  Checked on the PDF
\* category, whose set is {pdf}.
HasExtension(csv, extensions) ==
  \E n \in 1..Len(split(csv)) : toLowerCase(extname(Chars(split(csv)[n]))) \in extensions
C21_PredicateByExtension ==
  \A m \in Evaluations("contentForPDFs") :
    ("selectedFiles" \in DOMAIN evalLog[m].context /\ evalLog[m].context["selectedFiles"] # <<>>) =>
      /\ containsPDF(evalLog[m].context["selectedFiles"])
           <=> HasExtension(evalLog[m].context["selectedFiles"], {<<"p", "d", "f">>})
      /\ evalLog[m].result = <<"YES">>
           <=> HasExtension(evalLog[m].context["selectedFiles"], {<<"p", "d", "f">>})

\* C22: for every registry entry whose canonical name has a non-empty value in
\* the seed context, every occurrence of the entry's pattern in the template
\* is replaced by the seeded value and the entry's evaluator is not called
\* during the call; an empty seed value for "input" is not substituted, and
\* {{input}} is then resolved by its evaluator.
Verbatim(s, pattern, value) ==
  IF \E n \in 1..Len(s) : s[n] \in Lang(pattern)
  THEN LET n == FirstMatch(s, pattern)
           rest == SubSeq(s, n + 1, Len(s))
       IN SubSeq(s, 1, n - 1) \o value
          \o [m \in 1..Len(rest) |-> IF rest[m] \in Lang(pattern) THEN value[1] ELSE rest[m]]
  ELSE s
C22_SeedSubstitution ==
  \A n \in 1..Len(context) :
    LET name == context[n][1]
        value == context[n][2]
        entry == IndexOfPlaceholderName(allPlaceholders, name)
    IN entry # 0 =>
         /\ value # <<>> => Evaluations(name) = {}
         /\ (value # <<>> /\ pc = "returned"
             /\ Range(str) \subseteq {"A"} \cup Lang(allPlaceholders[entry].key)) =>
               subbedStr = Verbatim(str, allPlaceholders[entry].key, value)
         /\ (value = <<>> /\ name = "input" /\ pc = "returned" /\ "{{input}}" \in Range(str)) =>
               Evaluations("input") # {}

\* C23: in loadCustomPlaceholders a key that does not compile as a regular
\* expression makes only its own entry be skipped: every other entry of the
\* same file and of the other files is loaded, and the function returns.
C23_BadKeySkipsOnlyItself ==
  \A f \in 1..Len(customPlaceholderFiles(config)) :
    \A n \in 1..Len(customPlaceholderFiles(config)[f]) :
      LET entry == customPlaceholderFiles(config)[f][n]
          loaded == IndexOfKey(loadCustomPlaceholders(config), entry.key)
      IN IF ValidRegex(entry.key)
         THEN loaded # 0 /\ loadCustomPlaceholders(config)[loaded].apply = "custom"
         ELSE loaded = 0
C23_Witness ==
  /\ config.allowCustomPlaceholders
  /\ config.allowCustomPlaceholderPaths
  /\ config.supportFile = <<Greet, Invalid>>
  /\ config.customPlaceholderFiles # <<>>
  /\ pc = "returned"
  /\ str = <<"{{greet}}">>
  /\ subbedStr = <<"HELLO">>

\* C24: checkForPlaceholders is advisory only: whatever the text, it calls no
\* evaluator and leaves the persistent variables (with the usage counters),
\* the UUID ledger and the local storage items as they are.
Checks(c) == callers[c].pc = "idle" /\ callers'[c].pc = "done" /\ callers'[c].op = "check"
C24_CheckIsAdvisory ==
  [][(\E c \in Callers : Checks(c)) =>
       /\ persistentVariables' = persistentVariables
       /\ usedUUIDs' = usedUUIDs
       /\ localStorage' = localStorage
       /\ evalLog' = evalLog]_vars
C24_Witness ==
  \E c \in Callers :
    /\ callers[c].pc = "done"
    /\ callers[c].op = "check"
    /\ callers[c].returned # <<>>
    /\ persistentVariables # <<>>
    /\ usedUUIDs.list # <<>>

\* C25: in the list checkForPlaceholders returns, every descriptor whose
\* bracketed pattern occurs in the text stands before every descriptor that
\* was detected through its bare name only.
Literal(s, name) == HasMatch(s, PlaceholderNamed(name).key)
OnlyBareName(s, name) ==
  /\ ~Literal(s, name)
  /\ \A a \in 1..Len(PlaceholderNamed(name).aliases) : ~HasMatch(s, PlaceholderNamed(name).aliases[a])
  /\ \E n \in 1..Len(s) : ~Bracketed(s[n]) /\ Word(s[n]) = name
C25_LiteralBeforeBareName ==
  \A c \in Callers :
    (callers[c].pc = "done" /\ callers[c].op = "check") =>
      \A i, j \in 1..Len(callers[c].returned) :
        (Literal(callers[c].value, callers[c].returned[i])
         /\ OnlyBareName(callers[c].value, callers[c].returned[j])) => i < j
C25_Witness ==
  \E c \in Callers :
    /\ callers[c].pc = "done"
    /\ callers[c].op = "check"
    /\ callers[c].value = <<" currentDirectory", "{{uuid}}">>
    /\ callers[c].returned = <<"uuid", "currentDirectory">>

\* C26: with usage statistics enabled, a bulkApply call that has returned has
\* raised the counter "<name>_count" by one for each evaluation of directive
\* <name> and each seed cache hit of <name>, so that the counter keeps equal
\* to the number of these events; with statistics disabled no counter is
\* written by bulkApply.
UsageCount(store, name) ==
  LET text == getPersistentVariable(store, CountName(name))
  IN IF text = <<>> THEN 0 ELSE IF isNaN(text) THEN -1 ELSE parseInt(text)
SeedHits(name) ==
  {n \in 1..Len(context) :
     /\ context[n][1] = name
     /\ IndexOfPlaceholderName(allPlaceholders, name) # 0
     /\ ~(name = "input" /\ context[n][2] = <<>>)
     /\ HasMatch(str, PlaceholderNamed(name).key)}
CountedNames == {"get", "input", "setPersistentVariable"}
C26_CountersCountEvents ==
  (pc = "returned" /\ Len(evalLog) < MaxLog /\ processPlaceholders(config)) =>
    \A name \in CountedNames :
      IF config.usePlaceholderStatistics
      THEN /\ UsageCount(atCall.store, name) >= 0
           /\ UsageCount(persistentVariables, name) =
                UsageCount(atCall.store, name) + Cardinality(Evaluations(name))
                + Cardinality(SeedHits(name))
      ELSE \/ getPersistentVariable(persistentVariables, CountName(name)) =
                getPersistentVariable(atCall.store, CountName(name))
           \/ (name = "get" /\ Evaluations("setPersistentVariable") # {})

\* C27: a storage entry of the persistent variables that is missing or that
\* is not a list is treated as the empty store: getPersistentVariable
\* returns "", and setPersistentVariable, resetPersistentVariable and
\* deletePersistentVariable complete without raising.
C27_CorruptStoreIsEmpty ==
  \A c \in Callers :
    (callers[c].pc \in {"done", "raised"} /\ callers[c].vars \in {<<>>, NotAList}) =>
      /\ callers[c].pc = "done"
      /\ callers[c].op = "get" => callers[c].returned = <<>>

\* C28: when a template holds several occurrences of a flow-control directive
\* with different bodies, bulkApply replaces each occurrence by its own
\* success body, or each by its own failure body, never by the body of
\* another occurrence.
RECURSIVE OwnBodies(_, _)
OwnBodies(s, success) ==
  IF s = <<>> THEN <<>>
  ELSE (IF Head(s) \in Lang(KeyImages)
        THEN (IF success THEN onSuccess(Head(s)) ELSE onFailure(Head(s)))
        ELSE <<Head(s)>>)
       \o OwnBodies(Tail(s), success)
C28_OwnBodyPerOccurrence ==
  (/\ pc = "returned"
   /\ Range(str) \subseteq Lang(KeyImages) \cup {"A"}
   /\ "selectedFiles" \in DOMAIN result
   /\ result["selectedFiles"] # <<>>) =>
    \E success \in BOOLEAN : subbedStr = OwnBodies(str, success)

\* C29: every occurrence that bulkApply replaces is matched by a pattern of
\* the directive whose evaluator was called, and receives a result that this
\* evaluator computes from that occurrence; never a value computed for
\* another occurrence or by another directive's evaluator.
C29_Provenance ==
  \A m \in 1..Len(evalLog) :
    LET placeholder == PlaceholderNamed(evalLog[m].name)
    IN /\ evalLog[m].key \in {placeholder.key} \cup Range(placeholder.aliases)
       /\ \E own \in apply(placeholder, <<evalLog[m].token>>, evalLog[m].context,
                            persistentVariables, usedUUIDs) :
            own.res.result = evalLog[m].result

\* C30: runReplacements terminates whatever the stored commands are, cyclic
\* {{commandName}} references included: every call that was started returns
\* (or raises), since a command of disallowedCommands is never expanded and
\* each nested call adds the command it expands to disallowedCommands.
C30_Terminates == (frames # <<>>) ~> (frames = <<>>)
C30_Witness ==
  /\ callers["p"].pc = "done"
  /\ callers["p"].op = "runReplacements"
  /\ callers["p"].value = <<"{{a}}">>
  /\ JSONParse(localStorage["a"]).prompt = <<"{{b}}">>
  /\ JSONParse(localStorage["b"]).prompt = <<"{{a}}">>
  /\ callers["p"].returned = <<"R">>

====
